---- MODULE Spec2Model ----
(***************************************************************************)
(* A model of pyramds.py: the PyramdsParser path properties, the file      *)
(* series scan, the .ifm run-info reader, the PyramdsView filename handler *)
(* and the coincidence assembler of the design document.                   *)
(*                                                                         *)
(* A Python string is a sequence of one-character strings.  A call that    *)
(* may raise returns a record: [exc |-> "none", val |-> v] on a normal     *)
(* return and [exc |-> <exception class>] otherwise.                       *)
(***************************************************************************)
EXTENDS Integers, Sequences, FiniteSets, TLC

\* ------------------------------------------------------------- bounds
\* Number of PyramdsParser instances alive in the process.
NumInst == 2
\* Largest raw timestamp fed to the coincidence assembler.
MaxTs == 3
\* Longest event stream fed to the coincidence assembler.
MaxEvents == 3

Inst == 1..NumInst

\* ------------------------------------------------------------ strings
Ok(v) == [exc |-> "none", val |-> v]
Raise(e) == [exc |-> e]

Digits == <<"0", "1", "2", "3", "4", "5", "6", "7", "8", "9">>
IsDigit(c) == \E i \in 1..10 : Digits[i] = c
DigitVal(c) == (CHOOSE i \in 1..10 : Digits[i] = c) - 1

\* s[:k] for k >= 0 and s[k:] for k >= 0 (Python slices never raise).
Take(s, k) == SubSeq(s, 1, IF k < Len(s) THEN k ELSE Len(s))
Drop(s, k) == SubSeq(s, k + 1, Len(s))

\* str(n) of a Python int: the decimal digits, '-' first when negative.
RECURSIVE str(_)
str(n) ==
    IF n < 0 THEN <<"-">> \o str(-n)
    ELSE IF n < 10 THEN <<Digits[n + 1]>>
    ELSE str(n \div 10) \o <<Digits[(n % 10) + 1]>>

\* The format specification "0>4": fill character '0', right-aligned,
\* minimum width 4.  A longer text is never cut.
FillChar == "0"
FormatWidth == 4
format_narrow(n) ==
    LET s == str(n)
    IN  IF Len(s) >= FormatWidth - 1 THEN s
        ELSE [i \in 1..(FormatWidth - 1 - Len(s)) |-> FillChar] \o s
format(n) ==
    LET s == str(n)
    IN  IF Len(s) >= FormatWidth THEN s
        ELSE [i \in 1..(FormatWidth - Len(s)) |-> FillChar] \o s

\* --------------------------------------------------------- os.path
\* str.rfind('/') + 1: the 1-based position of the last '/', 0 when none.
rfind_sep(p) ==
    IF \E i \in 1..Len(p) : p[i] = "/"
    THEN CHOOSE i \in 1..Len(p) : p[i] = "/" /\ \A j \in (i + 1)..Len(p) : p[j] # "/"
    ELSE 0

RECURSIVE rstrip_sep(_)
rstrip_sep(s) ==
    IF s # <<>> /\ s[Len(s)] = "/" THEN rstrip_sep(SubSeq(s, 1, Len(s) - 1)) ELSE s

\* posixpath.dirname: everything up to the last '/', trailing slashes
\* removed unless the head is made of slashes only.
dirname(p) ==
    LET head == SubSeq(p, 1, rfind_sep(p))
    IN  IF head # <<>> /\ \E i \in 1..Len(head) : head[i] # "/"
        THEN rstrip_sep(head)
        ELSE head

\* posixpath.join(a, b) for two components.
join(a, b) ==
    IF b # <<>> /\ b[1] = "/" THEN b
    ELSE IF a = <<>> \/ a[Len(a)] = "/" THEN a \o b
    ELSE a \o <<"/">> \o b

\* fnmatch.fnmatch on POSIX, for patterns of literal characters, '?' and
\* '*': '*' matches any run of characters (the '/' included), '?' any one
\* character, and the whole name must match.
RECURSIVE fnmatch(_, _)
fnmatch(name, pat) ==
    IF pat = <<>> THEN name = <<>>
    ELSE IF pat[1] = "*"
         THEN \E k \in 0..Len(name) : fnmatch(Drop(name, k), Tail(pat))
    ELSE IF name = <<>> THEN FALSE
    ELSE /\ (pat[1] = "?" \/ pat[1] = name[1])
         /\ fnmatch(Tail(name), Tail(pat))

\* ------------------------------------------------------ program state
VARIABLES
    selected_data_file,  \* PyramdsParser.selected_data_file, per instance
    file_counter,        \* PyramdsParser.file_counter, per instance
    file_series,         \* PyramdsParser.file_series, per instance
    parser,              \* the module-level name `parser`: an instance, 0 when unbound
    scanned,             \* the get_file_series call that just returned, if any
    times,               \* PyramdsParser.times, per instance
    bufheadlen,          \* PyramdsParser.bufheadlen, per instance
    eventheadlen,        \* PyramdsParser.eventheadlen, per instance
    chanheadlen,         \* PyramdsParser.chanheadlen, per instance
    called,              \* per instance: the last get_bin_info call and its outcome
    Parser,              \* PyramdsView.Parser
    bin_filename,        \* PyramdsView.bin_filename
    view_file_series,    \* PyramdsView.file_series
    handled,             \* the _bin_filename_changed run that just finished, if any
    pending,             \* CoincidenceAssembler: the open window, per channel
    anchor,              \* CoincidenceAssembler: timestamp that opened the window
    tables,              \* EventTableWriter: the three append-only tables
    fed,                 \* the events consumed so far, in order
    eos                  \* whether the event stream has ended

pathVars == <<selected_data_file, file_counter, parser>>
seriesVars == <<file_series, scanned>>
infoVars == <<times, bufheadlen, eventheadlen, chanheadlen, called>>
viewVars == <<Parser, bin_filename, view_file_series, handled>>
asmVars == <<pending, anchor, tables, fed, eos>>
vars == <<pathVars, seriesVars, infoVars, viewVars, asmVars>>

\* An attribute that was never assigned, and one holding v.
Unset == [set |-> FALSE]
Set(v) == [set |-> TRUE, val |-> v]
NoCall == [done |-> FALSE]

\* ------------------------------------------- PyramdsParser properties
SliceLen == 8

\* selected_data_file[:-8]
_get_series_basename(sdf, self) ==
    SubSeq(sdf[self], 1, Len(sdf[self]) - SliceLen)

\* dirname(parser.series_basename): the name `parser` is looked up in the
\* module's globals when the property is read.
_get_data_cwd(sdf, self) ==
    IF parser = 0 THEN Raise("NameError")
    ELSE Ok(dirname(_get_series_basename(sdf, parser)))

_get_active_file_path(sdf, fc, self) ==
    _get_series_basename(sdf, self) \o format(fc[self])

\* ------------------------------------------------------- file system
DirA == <<"/", "a">>
DirB == <<"/", "b">>
Root == <<"/">>
ExtBin == <<"b", "i", "n">>
ExtIfm == <<"i", "f", "m">>
N1 == <<"0", "0", "0", "1">>
N2 == <<"0", "0", "0", "2">>
SeriesFile(stem, num, ext) == stem \o num \o <<".">> \o ext

\* os.listdir: the entries of a directory in the order the system lists
\* them; OSError for a path that is no directory (the empty path too).
listdir(d) ==
    IF d = DirA
    THEN Ok(<<SeriesFile(<<"r">>, N2, ExtBin), SeriesFile(<<"r">>, N1, ExtIfm),
              SeriesFile(<<"s">>, N1, ExtBin), SeriesFile(<<"r">>, N1, ExtBin),
              SeriesFile(<<"r", "s">>, N1, ExtBin), SeriesFile(<<"r">>, N2, ExtIfm),
              SeriesFile(<<"s">>, N1, ExtIfm)>>)
    ELSE IF d = DirB
    THEN Ok(<<SeriesFile(<<"q">>, N1, ExtIfm), SeriesFile(<<"q">>, N1, ExtBin),
              SeriesFile(<<"r">>, N1, ExtBin)>>)
    ELSE IF d = Root
    THEN Ok(<<<<"a">>, <<"b">>>>)
    ELSE Raise("OSError")

\* ------------------------------------------ PyramdsParser.get_file_series
\* The loop over the listing: each entry whose joined path matches the
\* wildcard is appended to the list.
RECURSIVE scan_listing(_, _, _, _)
scan_listing(listing, cwd, file_wildcard, acc) ==
    IF listing = <<>> THEN acc
    ELSE scan_listing(Tail(listing), cwd, file_wildcard,
                      IF fnmatch(join(cwd, Head(listing)), file_wildcard)
                      THEN Append(acc, Head(listing))
                      ELSE acc)

\* The list the scan starts from: file_series is rebound to a new empty
\* list, whatever it held.
reset_series_keep(old) == old
reset_series(old) == <<>>

\* The call on instance self with the selections sdf: the value file_series
\* is left with, and what the call returns or raises.
get_file_series(sdf, fs, self, ext) ==
    LET start == reset_series(fs[self])
        file_wildcard == _get_series_basename(sdf, self) \o <<"*", ".">> \o ext
        cwd == _get_data_cwd(sdf, self)
    IN  IF cwd.exc # "none" THEN [file_series |-> start, ret |-> cwd]
        ELSE LET listing == listdir(cwd.val)
             IN  IF listing.exc # "none" THEN [file_series |-> start, ret |-> listing]
                 ELSE LET found == scan_listing(listing.val, cwd.val, file_wildcard, start)
                      IN  [file_series |-> found, ret |-> Ok(found)]

\* ------------------------------------------------ str.split and int
IsSpace(c) == c \in {" ", "\t", "\n", "\r"}

\* str.split() with no separator: the maximal runs of non-whitespace.
RECURSIVE split(_)
split(s) ==
    IF s = <<>> THEN <<>>
    ELSE IF IsSpace(s[1]) THEN split(Tail(s))
    ELSE LET stop == IF \E i \in 1..Len(s) : IsSpace(s[i])
                     THEN CHOOSE i \in 1..Len(s) :
                              IsSpace(s[i]) /\ \A j \in 1..(i - 1) : ~IsSpace(s[j])
                     ELSE Len(s) + 1
         IN  <<SubSeq(s, 1, stop - 1)>> \o split(SubSeq(s, stop, Len(s)))

\* The digits of s read left to right, starting from acc.
RECURSIVE int_digits(_, _)
int_digits(s, acc) ==
    IF s = <<>> THEN acc ELSE int_digits(Tail(s), 10 * acc + DigitVal(s[1]))

\* int(s) for a text without whitespace: an optional sign and at least one
\* decimal digit; anything else is a ValueError.
int(s) ==
    LET signed == s # <<>> /\ s[1] \in {"+", "-"}
        body == IF signed THEN Tail(s) ELSE s
    IN  IF body = <<>> \/ \E i \in 1..Len(body) : ~IsDigit(body[i])
        THEN Raise("ValueError")
        ELSE Ok(IF signed /\ s[1] = "-" THEN 0 - int_digits(body, 0) ELSE int_digits(body, 0))

\* ------------------------------------------------- datetime.strptime
UpperCase == <<"A", "B", "C", "D", "E", "F", "G", "H", "I", "J", "K", "L", "M",
               "N", "O", "P", "Q", "R", "S", "T", "U", "V", "W", "X", "Y", "Z">>
LowerCase == <<"a", "b", "c", "d", "e", "f", "g", "h", "i", "j", "k", "l", "m",
               "n", "o", "p", "q", "r", "s", "t", "u", "v", "w", "x", "y", "z">>
lower(c) ==
    IF \E i \in 1..26 : UpperCase[i] = c
    THEN LowerCase[CHOOSE i \in 1..26 : UpperCase[i] = c]
    ELSE c
lower_str(s) == [i \in 1..Len(s) |-> lower(s[i])]

AmPm == <<<<"a", "m">>, <<"p", "m">>>>
Weekdays == <<<<"m", "o", "n">>, <<"t", "u", "e">>, <<"w", "e", "d">>, <<"t", "h", "u">>,
              <<"f", "r", "i">>, <<"s", "a", "t">>, <<"s", "u", "n">>>>
Months == <<<<"j", "a", "n">>, <<"f", "e", "b">>, <<"m", "a", "r">>, <<"a", "p", "r">>,
            <<"m", "a", "y">>, <<"j", "u", "n">>, <<"j", "u", "l">>, <<"a", "u", "g">>,
            <<"s", "e", "p">>, <<"o", "c", "t">>, <<"n", "o", "v">>, <<"d", "e", "c">>>>

\* A parse in progress: whether it still matches, the next position to
\* read, and the values of the directives matched so far.
ParseStart == [ok |-> TRUE, nxt |-> 1, f |-> <<>>]
ParseFail == [ok |-> FALSE, nxt |-> 0, f |-> <<>>]

\* The number of characters from position i on that satisfy the test.
RECURSIVE digit_run(_, _)
digit_run(s, i) == IF i <= Len(s) /\ IsDigit(s[i]) THEN 1 + digit_run(s, i + 1) ELSE 0
RECURSIVE space_run(_, _)
space_run(s, i) == IF i <= Len(s) /\ IsSpace(s[i]) THEN 1 + space_run(s, i + 1) ELSE 0

\* A literal character of the format.
p_lit(s, r, c) ==
    IF r.ok /\ r.nxt <= Len(s) /\ s[r.nxt] = c THEN [r EXCEPT !.nxt = @ + 1] ELSE ParseFail

\* Whitespace in the format: one or more whitespace characters.
p_space(s, r) ==
    IF r.ok /\ space_run(s, r.nxt) >= 1
    THEN [r EXCEPT !.nxt = @ + space_run(s, r.nxt)]
    ELSE ParseFail

\* %I, %M, %S, %d: one or two digits with a value in lo..hi; the directive
\* is followed by a literal, so the whole run of digits must belong to it.
p_num(s, r, lo, hi) ==
    IF ~r.ok THEN ParseFail
    ELSE LET n == digit_run(s, r.nxt)
             v == int_digits(SubSeq(s, r.nxt, r.nxt + n - 1), 0)
         IN  IF n \in {1, 2} /\ v >= lo /\ v <= hi
             THEN [ok |-> TRUE, nxt |-> r.nxt + n, f |-> Append(r.f, v)]
             ELSE ParseFail

\* %p, %a, %b: one of the locale's names, letter case ignored; the value is
\* the name's position in the list.
p_name(s, r, names) ==
    IF ~r.ok THEN ParseFail
    ELSE LET n == Len(names[1])
             w == lower_str(SubSeq(s, r.nxt, r.nxt + n - 1))
         IN  IF r.nxt + n - 1 <= Len(s) /\ \E k \in 1..Len(names) : names[k] = w
             THEN [ok |-> TRUE, nxt |-> r.nxt + n,
                   f |-> Append(r.f, CHOOSE k \in 1..Len(names) : names[k] = w)]
             ELSE ParseFail

\* %Y: exactly four digits.
p_year(s, r) ==
    IF r.ok /\ digit_run(s, r.nxt) >= 4
    THEN [ok |-> TRUE, nxt |-> r.nxt + 4,
          f |-> Append(r.f, int_digits(SubSeq(s, r.nxt, r.nxt + 3), 0))]
    ELSE ParseFail

IsLeap(y) == y % 4 = 0 /\ (y % 100 # 0 \/ y % 400 = 0)
DaysInMonth(y, m) ==
    IF m = 2 THEN (IF IsLeap(y) THEN 29 ELSE 28)
    ELSE IF m \in {4, 6, 9, 11} THEN 30 ELSE 31

\* datetime.strptime(date_str, '%I:%M:%S %p %a, %b %d, %Y'): the whole
\* text must match the format, and the fields must make a valid datetime
\* (12-hour clock turned to 24 hours; the weekday name is not compared
\* with the date).  Anything else is a ValueError.
strptime(s) ==
    LET r1 == p_num(s, ParseStart, 1, 12)
        r2 == p_num(s, p_lit(s, r1, ":"), 0, 59)
        r3 == p_num(s, p_lit(s, r2, ":"), 0, 61)
        r4 == p_name(s, p_space(s, r3), AmPm)
        r5 == p_name(s, p_space(s, r4), Weekdays)
        r6 == p_name(s, p_space(s, p_lit(s, r5, ",")), Months)
        r7 == p_num(s, p_space(s, r6), 1, 31)
        r8 == p_year(s, p_space(s, p_lit(s, r7, ",")))
    IN  IF ~r8.ok \/ r8.nxt # Len(s) + 1 THEN Raise("ValueError")
        ELSE LET hour12 == r8.f[1]
                 pm == r8.f[4] = 2
                 hour == IF pm THEN (IF hour12 = 12 THEN 12 ELSE hour12 + 12)
                         ELSE (IF hour12 = 12 THEN 0 ELSE hour12)
                 month == r8.f[6]
                 day == r8.f[7]
                 year == r8.f[8]
             IN  IF year < 1 \/ day > DaysInMonth(year, month) \/ r8.f[3] > 59
                 THEN Raise("ValueError")
                 ELSE Ok([year |-> year, month |-> month, day |-> day,
                          hour |-> hour, minute |-> r8.f[2], second |-> r8.f[3]])

\* ---------------------------------------- PyramdsParser.get_bin_info
\* Positions in info_str_list (0-based, as in the source) and in the lines.
DateLine == 1
DateStart == 23
DateTrim == 2
TotalLine == 6
TotalToken == 3
LiveLine == 9
LiveToken == 2
BufLine == 33
EventLine == 34
HeadToken == 1
ChanHeadLen == 2

\* info_str_list[line].split()[tok], both 0-based: IndexError when the
\* file has no such line or the line no such token.
token(info_str_list, line, tok) ==
    IF line + 1 > Len(info_str_list) THEN Raise("IndexError")
    ELSE LET toks == split(info_str_list[line + 1])
         IN  IF tok + 1 > Len(toks) THEN Raise("IndexError") ELSE Ok(toks[tok + 1])

\* int(info_str_list[line].split()[tok])
int_token(info_str_list, line, tok) ==
    LET t == token(info_str_list, line, tok)
    IN  IF t.exc # "none" THEN t ELSE int(t.val)

\* datetime.strptime(info_str_list[1][23:-2], date_format)
run_start_time(info_str_list) ==
    IF DateLine + 1 > Len(info_str_list) THEN Raise("IndexError")
    ELSE LET line == info_str_list[DateLine + 1]
         IN  strptime(SubSeq(line, DateStart + 1, Len(line) - DateTrim))

\* info_str_list[6].split()[3]
total_time_shifted(info_str_list) == token(info_str_list, TotalLine, TotalToken - 1)
total_time(info_str_list) == token(info_str_list, TotalLine, TotalToken)

\* [info_str_list[9 + channel].split()[2] for channel in range(4)]: the
\* four tokens, or the first exception met.
live_time(info_str_list) ==
    LET t == [channel \in 0..3 |-> token(info_str_list, LiveLine + channel, LiveToken)]
    IN  IF \E c \in 0..3 : t[c].exc # "none"
        THEN t[CHOOSE c \in 0..3 : t[c].exc # "none" /\ \A d \in 0..(c - 1) : t[d].exc = "none"]
        ELSE Ok([i \in 1..4 |-> t[i - 1].val])

\* The value chanheadlen is given: the literal 2; line 35 is not read.
chan_head_len_read(info_str_list) == int_token(info_str_list, EventLine + 1, HeadToken)
chan_head_len(info_str_list) == Ok(ChanHeadLen)

\* The statements of get_bin_info after readlines(), in order: what each
\* attribute is assigned (Unset: not assigned by this call) and the
\* exception that ended the call, if any.
read_info(info_str_list) ==
    LET start == run_start_time(info_str_list)
        total == total_time(info_str_list)
        live == live_time(info_str_list)
        buf == int_token(info_str_list, BufLine, HeadToken)
        evt == int_token(info_str_list, EventLine, HeadToken)
        chan == chan_head_len(info_str_list)
        none == [times |-> Unset, bufheadlen |-> Unset, eventheadlen |-> Unset,
                 chanheadlen |-> Unset]
    IN  IF start.exc # "none" THEN [exc |-> start.exc, new |-> none]
        ELSE IF total.exc # "none" THEN [exc |-> total.exc, new |-> none]
        ELSE IF live.exc # "none" THEN [exc |-> live.exc, new |-> none]
        ELSE LET t == Set([start |-> start.val, total |-> total.val, live |-> live.val])
             IN  IF buf.exc # "none"
                 THEN [exc |-> buf.exc, new |-> [none EXCEPT !.times = t]]
                 ELSE IF evt.exc # "none"
                 THEN [exc |-> evt.exc,
                       new |-> [none EXCEPT !.times = t, !.bufheadlen = Set(buf.val)]]
                 ELSE IF chan.exc # "none"
                 THEN [exc |-> chan.exc,
                       new |-> [none EXCEPT !.times = t, !.bufheadlen = Set(buf.val),
                                            !.eventheadlen = Set(evt.val)]]
                 ELSE [exc |-> "none",
                       new |-> [times |-> t, bufheadlen |-> Set(buf.val),
                                eventheadlen |-> Set(evt.val),
                                chanheadlen |-> Set(chan.val)]]

\* The path get_bin_info opens.
ExtSuffix == <<".", "i", "f", "m">>
active_file_ifm_base(sdf, fc, self) == _get_series_basename(sdf, self) \o ExtSuffix
active_file_ifm(sdf, fc, self) == _get_active_file_path(sdf, fc, self) \o ExtSuffix

\* ------------------------------------------------------------ inputs
SelectableFiles ==
    { <<>>,
      DirA \o <<"/">> \o SeriesFile(<<"r">>, N1, ExtBin),
      DirA \o <<"/">> \o SeriesFile(<<"s">>, N1, ExtBin),
      DirB \o <<"/">> \o SeriesFile(<<"q">>, N1, ExtBin),
      SeriesFile(<<"r">>, N1, ExtBin) }
SeriesFiles ==
    { DirA \o <<"/">> \o SeriesFile(<<"r">>, N1, ExtBin),
      DirB \o <<"/">> \o SeriesFile(<<"q">>, N1, ExtBin),
      SeriesFile(<<"r">>, N1, ExtBin) }
Counters == {-5, 0, 1, 7, 42, 999, 1000, 9999, 10000}
Exts == {ExtBin, ExtIfm}

\* ------------------------------------------------ info files on disk
\* A line of tokens separated by sep, ended by a newline.
RECURSIVE JoinTokens(_, _)
JoinTokens(toks, sep) ==
    IF toks = <<>> THEN <<>>
    ELSE IF Len(toks) = 1 THEN toks[1]
    ELSE toks[1] \o sep \o JoinTokens(Tail(toks), sep)
Line(toks) == JoinTokens(toks, <<" ">>) \o <<"\n">>
WideLine(toks) == <<" ", "\t">> \o JoinTokens(toks, <<" ", " ", "\t">>) \o <<" ", "\n">>

\* "Acquisition started at ": the 23 characters before the date.
StartedAt == <<"A", "c", "q", "u", "i", "s", "i", "t", "i", "o", "n", " ",
               "s", "t", "a", "r", "t", "e", "d", " ", "a", "t", " ">>
\* 10:11:12 AM Mon, Jan 02, 2012
Date1 == <<"1", "0", ":", "1", "1", ":", "1", "2", " ", "A", "M", " ", "M", "o", "n", ",",
           " ", "J", "a", "n", " ", "0", "2", ",", " ", "2", "0", "1", "2">>
\* 12:05:09 PM Wed, Feb 29, 2012
Date2 == <<"1", "2", ":", "0", "5", ":", "0", "9", " ", "P", "M", " ", "W", "e", "d", ",",
           " ", "F", "e", "b", " ", "2", "9", ",", " ", "2", "0", "1", "2">>
\* 1:2:3 am thu,  mar 7, 2013
Date3 == <<"1", ":", "2", ":", "3", " ", "a", "m", " ", "t", "h", "u", ",",
           " ", " ", "m", "a", "r", " ", "7", ",", " ", "2", "0", "1", "3">>
\* 13:11:12 AM Mon, Jan 02, 2012 (no such hour on a 12-hour clock)
DateHour13 == <<"1", "3">> \o SubSeq(Date1, 3, Len(Date1))
\* 12:05:09 PM Wed, Feb 30, 2012 (no such day)
DateFeb30 == SubSeq(Date2, 1, 21) \o <<"3", "0">> \o SubSeq(Date2, 24, Len(Date2))

DateText(date) == StartedAt \o date \o <<".", "\n">>

Tok(a, b) == <<<<a>>, <<b>>>>
TotalText(v) == <<<<"T">>, <<"t">>, <<"=">>, v>>
LiveText(v) == <<<<"L">>, <<"=">>, v>>

\* The lines of an info file with n lines: the date on line 1, the total
\* time on line 6, the live times on lines 9 to 12, the header lengths on
\* lines 33 to 35, and rest on every other line.
InfoFile(n, date, total, live, buf, evt, chan, rest) ==
    [i \in 1..n |->
        IF i = 2 THEN date
        ELSE IF i = 7 THEN total
        ELSE IF i \in 10..13 THEN live[i - 9]
        ELSE IF i = 34 THEN buf
        ELSE IF i = 35 THEN evt
        ELSE IF i = 36 THEN chan
        ELSE rest]

Live1 == <<Line(LiveText(<<"1", ".", "0">>)), Line(LiveText(<<"1", ".", "1">>)),
           Line(LiveText(<<"1", ".", "2">>)), Line(LiveText(<<"1", ".", "3">>))>>
Live2 == <<WideLine(LiveText(<<"2", ".", "0">>)), WideLine(LiveText(<<"2", ".", "1">>)),
           WideLine(LiveText(<<"2", ".", "2">>)), WideLine(LiveText(<<"2", ".", "3">>))>>
Live3 == <<Line(LiveText(<<"3">>) \o <<<<"s">>>>), Line(LiveText(<<"n", "a">>)),
           Line(LiveText(<<"3", ".", "2">>)), Line(LiveText(<<"3", ".", "3">>))>>
Total1 == Line(TotalText(<<"7", ".", "5">>))
Total2 == WideLine(TotalText(<<"9", ".", "2", "5">>) \o <<<<"s">>>>)
Total3 == Line(TotalText(<<"a", "b", "c">>))
Rest1 == Line(<<<<"x">>>>)
Rest2 == Line(Tok("y", "1") \o Tok("2", "3"))

\* Three files that get_bin_info reads to the end.
Info1 == InfoFile(36, DateText(Date1), Total1, Live1, Line(Tok("B", "6")),
                  Line(Tok("E", "3")), Line(Tok("C", "7")), Rest1)
Info2 == InfoFile(35, DateText(Date2), Total2, Live2, WideLine(<<<<"B">>, <<"1", "0">>>>),
                  WideLine(Tok("E", "4") \o Tok("e", "9")), Rest2, Rest2)
Info3 == InfoFile(36, DateText(Date3), Total3, Live3, Line(<<<<"B">>, <<"-", "1">>>>),
                  Line(<<<<"E">>, <<"+", "0", "1", "2">>>>), Line(Tok("C", "z")), Rest1)

InfoFiles ==
    << Info1, Info2, Info3,
       \* an empty file, and files cut after lines 9, 32 and 33
       <<>>,
       SubSeq(Info1, 1, 10),
       SubSeq(Info3, 1, 33),
       SubSeq(Info2, 1, 34),
       \* a date that is no date
       [Info1 EXCEPT ![2] = DateText(DateHour13)],
       [Info2 EXCEPT ![2] = DateText(DateFeb30)],
       \* a date line without the character that follows the date
       [Info1 EXCEPT ![2] = StartedAt \o Date1 \o <<"\n">>],
       \* a total-time line of three tokens
       [Info1 EXCEPT ![7] = Line(<<<<"T">>, <<"=">>, <<"7", ".", "5">>>>)],
       \* header lengths that are no integers
       [Info1 EXCEPT ![34] = Line(<<<<"B">>, <<"6", ".", "0">>>>)],
       [Info2 EXCEPT ![35] = Line(Tok("E", "x"))] >>

\* open(active_file_ifm, 'rU') and readlines(): what the path holds is the
\* environment's choice, k = 0 standing for a path that does not exist.
readlines(k) == IF k = 0 THEN Raise("IOError") ELSE Ok(InfoFiles[k])

InfoSelections ==
    { DirA \o <<"/">> \o SeriesFile(<<"r">>, N1, ExtBin),
      DirB \o <<"/">> \o SeriesFile(<<"q">>, N1, ExtBin) }
InfoCounters == {1, 12}

\* ------------------------------------------------------------ actions
\* parser.selected_data_file = f.  The records of the call and the handler
\* run that just finished describe the selections they ran on, and are
\* dropped when a selection changes.
SelectFile(self, f) ==
    /\ selected_data_file' = [selected_data_file EXCEPT ![self] = f]
    /\ scanned' = NoCall
    /\ handled' = NoCall
    /\ UNCHANGED <<file_counter, parser, file_series, infoVars, asmVars>>
    /\ UNCHANGED <<Parser, bin_filename, view_file_series>>

\* parser.file_counter = n
SetCounter(self, n) ==
    /\ file_counter' = [file_counter EXCEPT ![self] = n]
    /\ UNCHANGED <<selected_data_file, parser, seriesVars, infoVars, viewVars, asmVars>>

\* parser.get_file_series(ext)
GetFileSeries(self, ext) ==
    LET r == get_file_series(selected_data_file, file_series, self, ext)
    IN  /\ file_series' = [file_series EXCEPT ![self] = r.file_series]
        /\ scanned' = [done |-> TRUE, self |-> self, ext |-> ext,
                       before |-> Len(file_series[self]), ret |-> r.ret]
        /\ UNCHANGED <<pathVars, infoVars, viewVars, asmVars>>

\* The body of get_bin_info on each file the path may hold: the exception
\* raised and the attributes assigned.
get_bin_info ==
    [k \in 0..Len(InfoFiles) |->
        LET lines == readlines(k)
        IN  IF lines.exc # "none"
            THEN [exc |-> lines.exc,
                  new |-> [times |-> Unset, bufheadlen |-> Unset,
                           eventheadlen |-> Unset, chanheadlen |-> Unset]]
            ELSE read_info(lines.val)]

\* parser.get_bin_info(), the path holding file k
GetBinInfo(self, k) ==
    \E r \in {get_bin_info[k]} :
        /\ times' = IF r.new.times.set THEN [times EXCEPT ![self] = r.new.times] ELSE times
        /\ bufheadlen' = IF r.new.bufheadlen.set
                         THEN [bufheadlen EXCEPT ![self] = r.new.bufheadlen]
                         ELSE bufheadlen
        /\ eventheadlen' = IF r.new.eventheadlen.set
                           THEN [eventheadlen EXCEPT ![self] = r.new.eventheadlen]
                           ELSE eventheadlen
        /\ chanheadlen' = IF r.new.chanheadlen.set
                          THEN [chanheadlen EXCEPT ![self] = r.new.chanheadlen]
                          ELSE chanheadlen
        /\ called' = [called EXCEPT ![self] =
                         [done |-> TRUE, finfo |-> k, exc |-> r.exc,
                          opened |-> active_file_ifm(selected_data_file, file_counter, self),
                          selected |-> selected_data_file[self],
                          counter |-> file_counter[self]]]
        /\ UNCHANGED <<pathVars, seriesVars, viewVars, asmVars>>

\* ------------------------------------- PyramdsView._bin_filename_changed
\* The handler on the view whose parser is p: the parser's selection and
\* file_series and the view's file_series when it ends, the exception that
\* ended it, and the scans it ran, each with the selection it ran on.  The
\* view's List trait takes a copy of the list it is assigned.
_bin_filename_changed_late(sdf, fs, vfs, p, new) ==
    LET sdf1 == [sdf EXCEPT ![p] = new]
        r1 == get_file_series(sdf, fs, p, ExtBin)
        fs1 == [fs EXCEPT ![p] = r1.file_series]
        s1 == <<[ext |-> ExtBin, selected |-> sdf[p], before |-> Len(fs[p]), ret |-> r1.ret]>>
        r2 == get_file_series(sdf1, fs1, p, ExtIfm)
        fs2 == [fs EXCEPT ![p] = r2.file_series]
        s2 == <<[ext |-> ExtIfm, selected |-> sdf1[p], before |-> Len(fs1[p]), ret |-> r2.ret]>>
    IN  IF r1.ret.exc # "none"
        THEN [selected_data_file |-> sdf, file_series |-> fs1, view_file_series |-> vfs,
              exc |-> r1.ret.exc, scans |-> s1]
        ELSE [selected_data_file |-> sdf1, file_series |-> fs2,
              view_file_series |-> r1.ret.val, exc |-> r2.ret.exc, scans |-> s1 \o s2]
_bin_filename_changed(sdf, fs, vfs, p, new) ==
    LET sdf1 == [sdf EXCEPT ![p] = new]
        r1 == get_file_series(sdf1, fs, p, ExtBin)
        fs1 == [fs EXCEPT ![p] = r1.file_series]
        s1 == <<[ext |-> ExtBin, selected |-> sdf1[p], before |-> Len(fs[p]), ret |-> r1.ret]>>
        r2 == get_file_series(sdf1, fs1, p, ExtIfm)
        fs2 == [fs EXCEPT ![p] = r2.file_series]
        s2 == <<[ext |-> ExtIfm, selected |-> sdf1[p], before |-> Len(fs1[p]), ret |-> r2.ret]>>
    IN  IF r1.ret.exc # "none"
        THEN [selected_data_file |-> sdf1, file_series |-> fs1, view_file_series |-> vfs,
              exc |-> r1.ret.exc, scans |-> s1]
        ELSE [selected_data_file |-> sdf1, file_series |-> fs2,
              view_file_series |-> r1.ret.val, exc |-> r2.ret.exc, scans |-> s1 \o s2]

\* view.bin_filename = new: the trait notifies its handler when the value
\* changes.
BinFilenameChanged(new) ==
    /\ new # bin_filename
    /\ LET r == _bin_filename_changed(selected_data_file, file_series,
                                      view_file_series, Parser, new)
           last == r.scans[Len(r.scans)]
       IN  /\ bin_filename' = new
           /\ selected_data_file' = r.selected_data_file
           /\ file_series' = r.file_series
           /\ view_file_series' = r.view_file_series
           /\ scanned' = [done |-> TRUE, self |-> Parser, ext |-> last.ext,
                          before |-> last.before, ret |-> last.ret]
           /\ handled' = [done |-> TRUE, new |-> new, old |-> bin_filename,
                          exc |-> r.exc, scans |-> r.scans]
    /\ UNCHANGED <<file_counter, parser, Parser, infoVars, asmVars>>

\* ------------------------------------------------ CoincidenceAssembler
\* Coincidence tolerance, in clock ticks.
Tolerance == 1
Channels == 0..2
Energies == {1, 2}

Present(p) == {c \in Channels : p[c].set}
Lowest(p) == CHOOSE c \in Present(p) : \A d \in Present(p) : c <= d
Highest(p) == CHOOSE c \in Present(p) : \A d \in Present(p) : c >= d

\* The three-channel record of a window: deltaT_XY is the timestamp of
\* channel Y minus that of channel X.
GammaRecord_abs(p) ==
    LET abs(x) == IF x < 0 THEN 0 - x ELSE x
    IN  [energy_0 |-> p[0].val.energy, energy_1 |-> p[1].val.energy,
         energy_2 |-> p[2].val.energy,
         deltaT_01 |-> abs(p[1].val.ts - p[0].val.ts),
         deltaT_02 |-> abs(p[2].val.ts - p[0].val.ts),
         deltaT_12 |-> abs(p[2].val.ts - p[1].val.ts),
         timestamp |-> p[0].val.ts]
GammaRecord(p) ==
    [energy_0 |-> p[0].val.energy, energy_1 |-> p[1].val.energy,
     energy_2 |-> p[2].val.energy,
     deltaT_01 |-> p[1].val.ts - p[0].val.ts,
     deltaT_02 |-> p[2].val.ts - p[0].val.ts,
     deltaT_12 |-> p[2].val.ts - p[1].val.ts,
     timestamp |-> p[0].val.ts]

\* Window close: the record of the window is appended to the table of its
\* shape; the record's timestamp is that of the lowest channel present.
emit(tbl, p) ==
    IF Cardinality(Present(p)) = 3
    THEN [tbl EXCEPT !.GammaEvent = Append(@, GammaRecord(p))]
    ELSE IF Cardinality(Present(p)) = 2
    THEN [tbl EXCEPT !.AggEvent2 =
             Append(@, [energy_1 |-> p[Lowest(p)].val.energy,
                        energy_2 |-> p[Highest(p)].val.energy,
                        timestamp |-> p[Lowest(p)].val.ts])]
    ELSE IF Cardinality(Present(p)) = 1
    THEN [tbl EXCEPT !.AggEvent1 =
             Append(@, [energy |-> p[Lowest(p)].val.energy,
                        timestamp |-> p[Lowest(p)].val.ts])]
    ELSE tbl

EmptyWindow == [c \in Channels |-> Unset]

\* The next event of the time-ordered stream arrives.
Feed(ev) ==
    /\ ~eos
    /\ Len(fed) < MaxEvents
    /\ fed # <<>> => ev.ts >= fed[Len(fed)].ts
    /\ fed' = Append(fed, ev)
    /\ IF Present(pending) = {}
       THEN /\ pending' = [EmptyWindow EXCEPT ![ev.channel] = Set(ev)]
            /\ anchor' = ev.ts
            /\ tables' = tables
       ELSE IF pending[ev.channel].set \/ ev.ts - anchor > Tolerance
       THEN /\ tables' = emit(tables, pending)
            /\ pending' = [EmptyWindow EXCEPT ![ev.channel] = Set(ev)]
            /\ anchor' = ev.ts
       ELSE /\ pending' = [pending EXCEPT ![ev.channel] = Set(ev)]
            /\ UNCHANGED <<anchor, tables>>
    /\ eos' = eos
    /\ UNCHANGED <<pathVars, seriesVars, infoVars, viewVars>>

\* The stream ends: the open window, if any, is closed.
EndOfStream ==
    /\ ~eos
    /\ eos' = TRUE
    /\ tables' = emit(tables, pending)
    /\ pending' = EmptyWindow
    /\ UNCHANGED <<anchor, fed>>
    /\ UNCHANGED <<pathVars, seriesVars, infoVars, viewVars>>

\* ------------------------------------------------------ initial state
\* Every instance starts with the trait defaults; the module is either
\* imported (no global `parser`) or run as a script, which binds `parser`
\* to the first instance and gives it to the view.
ParserInit ==
    /\ selected_data_file = [i \in Inst |-> <<>>]
    /\ file_counter = [i \in Inst |-> 1]
    /\ file_series = [i \in Inst |-> <<>>]
    /\ scanned = NoCall
    /\ times = [i \in Inst |-> Unset]
    /\ bufheadlen = [i \in Inst |-> Unset]
    /\ eventheadlen = [i \in Inst |-> Unset]
    /\ chanheadlen = [i \in Inst |-> Unset]
    /\ called = [i \in Inst |-> NoCall]
    /\ parser \in {0, 1}

\* The script gives its parser to the view; other code may give any.
ViewInit ==
    /\ bin_filename = <<>>
    /\ view_file_series = <<>>
    /\ handled = NoCall

AsmInit ==
    /\ pending = EmptyWindow
    /\ anchor = 0
    /\ tables = [GammaEvent |-> <<>>, AggEvent2 |-> <<>>, AggEvent1 |-> <<>>]
    /\ fed = <<>>
    /\ eos = FALSE

Init == ParserInit /\ Parser = 1 /\ ViewInit /\ AsmInit
InitView == ParserInit /\ Parser \in Inst /\ ViewInit /\ AsmInit

\* ------------------------------------------------------ specifications
PathNext ==
    \/ \E self \in Inst, f \in SelectableFiles : SelectFile(self, f)
    \/ \E self \in Inst, n \in Counters : SetCounter(self, n)

SpecPath == Init /\ [][PathNext]_vars

SeriesNext ==
    \/ \E self \in Inst, f \in SeriesFiles : SelectFile(self, f)
    \/ \E self \in Inst, ext \in Exts : GetFileSeries(self, ext)

SpecSeries == Init /\ [][SeriesNext]_vars

\* The application's parser (the one the view holds) reading info files.
InfoNext ==
    \/ \E f \in InfoSelections : SelectFile(Parser, f)
    \/ \E n \in InfoCounters : SetCounter(Parser, n)
    \/ \E k \in 0..Len(InfoFiles) : GetBinInfo(Parser, k)

SpecInfo == Init /\ [][InfoNext]_vars

ViewNext ==
    \/ \E new \in SeriesFiles \cup {<<>>} : BinFilenameChanged(new)
    \/ \E self \in Inst, f \in SeriesFiles : SelectFile(self, f)

SpecView == InitView /\ [][ViewNext]_vars

AsmNext ==
    \/ \E c \in Channels, e \in Energies, t \in 0..MaxTs :
           Feed([channel |-> c, energy |-> e, ts |-> t])
    \/ EndOfStream

SpecAsm == Init /\ [][AsmNext]_vars

\* ================================================================ claims
\* The value of a text of decimal digits, most significant first.
RECURSIVE DecimalValue(_)
DecimalValue(s) ==
    IF s = <<>> THEN 0
    ELSE 10 * DecimalValue(SubSeq(s, 1, Len(s) - 1)) + DigitVal(s[Len(s)])

AllDigits(s) == \A i \in 1..Len(s) : IsDigit(s[i])
Zeros(k) == [i \in 1..k |-> "0"]

\* C5: in every state, for every parser, active_file_path is the current
\* selected_data_file without its last 8 characters followed by the current
\* file_counter in decimal, left-padded with '0' to 4 characters; for a
\* counter in 0..9999 the suffix is exactly 4 decimal digits whose value is
\* the counter.  Nothing but the current values enters it.
C5_ActiveFilePath ==
    \A self \in Inst :
        LET sel == selected_data_file[self]
            n == file_counter[self]
            path == _get_active_file_path(selected_data_file, file_counter, self)
            keep == IF Len(sel) > 8 THEN Len(sel) - 8 ELSE 0
            suffix == Drop(path, keep)
        IN  /\ Len(path) >= keep
            /\ \A i \in 1..keep : path[i] = sel[i]
            /\ \E k \in 0..4 : suffix = Zeros(k) \o str(n) /\ (k > 0 => Len(suffix) = 4)
            /\ n \in 0..9999 =>
                   Len(suffix) = 4 /\ AllDigits(suffix) /\ DecimalValue(suffix) = n

\* C5 witness: a parser whose selection and counter were both changed and
\* whose path is /a/r0042.
C5_Witness ==
    \E self \in Inst :
        /\ selected_data_file[self] = DirA \o <<"/">> \o SeriesFile(<<"r">>, N1, ExtBin)
        /\ file_counter[self] = 42
        /\ _get_active_file_path(selected_data_file, file_counter, self)
               = <<"/", "a", "/", "r", "0", "0", "4", "2">>

\* C7: for every parser instance p, p.data_cwd is the directory part of
\* p's own series_basename, whatever the other instances hold and whether
\* or not the module-level name `parser` is bound.
C7_DataCwdOwnBasename ==
    \A self \in Inst :
        _get_data_cwd(selected_data_file, self)
            = Ok(dirname(_get_series_basename(selected_data_file, self)))

\* The directory entries the wildcard of a scan selects, in listing order.
Basename(sel) == Take(sel, IF Len(sel) > 8 THEN Len(sel) - 8 ELSE 0)
ExpectedSeries(cwd, sel, ext) ==
    IF cwd.exc # "none" THEN <<>>
    ELSE IF listdir(cwd.val).exc # "none" THEN <<>>
    ELSE LET Matches(f) == fnmatch(join(cwd.val, f), Basename(sel) \o <<"*", ".">> \o ext)
         IN  SelectSeq(listdir(cwd.val).val, Matches)

NoDuplicates(s) == \A i, j \in 1..Len(s) : i # j => s[i] # s[j]

\* C9: when a get_file_series(ext) call on a parser has returned, its
\* file_series, and the list returned, are exactly the entries of data_cwd
\* that match series_basename + '*.' + ext, in listing order, whatever
\* file_series held before: nothing is carried over from an earlier call
\* and nothing appears twice.  (A call that raises leaves the empty list.)
C9_SeriesReplaced ==
    scanned.done =>
        LET self == scanned.self
            expected == ExpectedSeries(_get_data_cwd(selected_data_file, self),
                                       selected_data_file[self], scanned.ext)
        IN  /\ file_series[self] = expected
            /\ NoDuplicates(file_series[self])
            /\ scanned.ret.exc = "none" => scanned.ret.val = expected

\* C9 witness: a scan for '.ifm' run on a parser whose file_series held the
\* three '.bin' entries of an earlier scan, and now holds the two '.ifm'
\* files of series r.
C9_Witness ==
    /\ scanned.done
    /\ scanned.ext = ExtIfm
    /\ scanned.before = 3
    /\ scanned.ret = Ok(file_series[scanned.self])
    /\ file_series[scanned.self]
           = <<SeriesFile(<<"r">>, N1, ExtIfm), SeriesFile(<<"r">>, N2, ExtIfm)>>

\* ------------------------------------------------- claims on get_bin_info
\* The positions at which the whitespace-delimited tokens of a line start,
\* and the k-th token (k = 1 for the first).
TokenStarts(line) ==
    {i \in 1..Len(line) : ~IsSpace(line[i]) /\ (i = 1 \/ IsSpace(line[i - 1]))}
HasToken(line, k) == Cardinality(TokenStarts(line)) >= k
KthToken(line, k) ==
    LET i == CHOOSE a \in TokenStarts(line) :
                 Cardinality({b \in TokenStarts(line) : b < a}) = k - 1
        j == CHOOSE e \in i..Len(line) :
                 /\ \A m \in i..e : ~IsSpace(line[m])
                 /\ (e = Len(line) \/ IsSpace(line[e + 1]))
    IN  SubSeq(line, i, j)

IsInteger(tok) ==
    LET body == IF tok # <<>> /\ tok[1] \in {"+", "-"} THEN Tail(tok) ELSE tok
    IN  body # <<>> /\ AllDigits(body)
IntegerValue(tok) ==
    IF tok[1] = "-" THEN 0 - DecimalValue(Tail(tok))
    ELSE IF tok[1] = "+" THEN DecimalValue(Tail(tok))
    ELSE DecimalValue(tok)
IsDuration(tok) ==
    /\ \E i \in 1..Len(tok) : IsDigit(tok[i])
    /\ \A i \in 1..Len(tok) : IsDigit(tok[i]) \/ tok[i] = "."
    /\ Cardinality({i \in 1..Len(tok) : tok[i] = "."}) <= 1

\* The file the last get_bin_info call of a parser read.
FileRead(self) == InfoFiles[called[self].finfo]
Returned(self) == called[self].done /\ called[self].exc = "none"

\* C1: after every get_bin_info call that returns, chanheadlen is 2,
\* whatever line 35 of the file holds (an integer, other text, or no
\* line 35); chanheadlen never holds any other value.
C1_ChanHeadLenIsTwo ==
    \A self \in Inst :
        /\ Returned(self) => chanheadlen[self] = Set(2)
        /\ chanheadlen[self].set => chanheadlen[self].val = 2

\* C1 witness: a call returned on a file whose line 35 holds the integer 7.
C1_Witness ==
    \E self \in Inst :
        /\ Returned(self)
        /\ Len(FileRead(self)) = 36
        /\ KthToken(FileRead(self)[36], 2) = <<"7">>
        /\ chanheadlen[self] = Set(2)

\* C2: after every get_bin_info call that returns, total time is the 4th
\* token of line 6, the live time of channel c the 3rd token of line 9 + c,
\* bufheadlen the integer value of the 2nd token of line 33 and
\* eventheadlen that of the 2nd token of line 34 of the file read (lines
\* counted from 0); no other line or token enters these values.
C2_LiteralValues ==
    \A self \in Inst :
        Returned(self) =>
            LET f == FileRead(self)
            IN  /\ times[self].set
                /\ times[self].val.total = KthToken(f[7], 4)
                /\ \A c \in 0..3 : times[self].val.live[c + 1] = KthToken(f[10 + c], 3)
                /\ bufheadlen[self] = Set(IntegerValue(KthToken(f[34], 2)))
                /\ eventheadlen[self] = Set(IntegerValue(KthToken(f[35], 2)))

\* C2 witness: a call returned on the file whose tokens are separated by
\* runs of blanks and tabs and followed by further tokens.
C2_Witness ==
    \E self \in Inst :
        /\ Returned(self)
        /\ called[self].finfo = 2
        /\ times[self].val.total = <<"9", ".", "2", "5">>
        /\ times[self].val.live[4] = <<"2", ".", "3">>
        /\ bufheadlen[self] = Set(10)
        /\ eventheadlen[self] = Set(4)

\* Whether the file of index k is missing, truncated, or holds a field
\* that is not of its type.
Malformed(k) ==
    \/ k = 0
    \/ Len(InfoFiles[k]) < 36
    \/ LET f == InfoFiles[k]
       IN  \/ strptime(SubSeq(f[2], 24, Len(f[2]) - 2)).exc # "none"
           \/ ~HasToken(f[7], 4) \/ ~IsDuration(KthToken(f[7], 4))
           \/ \E c \in 0..3 : ~HasToken(f[10 + c], 3) \/ ~IsDuration(KthToken(f[10 + c], 3))
           \/ ~HasToken(f[34], 2) \/ ~IsInteger(KthToken(f[34], 2))
           \/ ~HasToken(f[35], 2) \/ ~IsInteger(KthToken(f[35], 2))

\* C3: get_bin_info returns or fails with MetadataFormatError, and it fails
\* with MetadataFormatError whenever the info file is missing, truncated,
\* or a field does not parse as its type (date, integer, duration).
C3_MetadataFormatError ==
    \A self \in Inst :
        called[self].done =>
            /\ called[self].exc \in {"none", "MetadataFormatError"}
            /\ Malformed(called[self].finfo) => called[self].exc = "MetadataFormatError"

\* C4 as stated: the path get_bin_info opens is series_basename + ".ifm".
C4_OpensBaseIfm ==
    \A self \in Inst :
        called[self].done =>
            called[self].opened = Basename(called[self].selected) \o <<".", "i", "f", "m">>

\* C4, amended: the path get_bin_info opens is active_file_path + ".ifm":
\* series_basename, then file_counter left-padded with '0' to 4 digits,
\* then ".ifm", for the selection and the counter at the time of the call.
C4_OpensActiveIfm ==
    \A self \in Inst :
        called[self].done =>
            LET digits == str(called[self].counter)
            IN  called[self].opened
                    = Basename(called[self].selected) \o Zeros(4 - Len(digits)) \o digits
                          \o <<".", "i", "f", "m">>

\* C4 witness: with /a/r0001.bin selected and file_counter 12 the call
\* opened /a/r0012.ifm.
C4_Witness ==
    \E self \in Inst :
        /\ called[self].done
        /\ called[self].selected = DirA \o <<"/">> \o SeriesFile(<<"r">>, N1, ExtBin)
        /\ called[self].counter = 12
        /\ called[self].opened
               = <<"/", "a", "/", "r", "0", "0", "1", "2", ".", "i", "f", "m">>

\* C8: the fields times, bufheadlen, eventheadlen and chanheadlen of a
\* parser are all unset, or all the values of one info file that
\* get_bin_info reads to the end.
C8_SingleInfoFile ==
    \A self \in Inst :
        \/ /\ ~times[self].set /\ ~bufheadlen[self].set
           /\ ~eventheadlen[self].set /\ ~chanheadlen[self].set
        \/ \E k \in 1..Len(InfoFiles) :
               /\ get_bin_info[k].exc = "none"
               /\ times[self] = get_bin_info[k].new.times
               /\ bufheadlen[self] = get_bin_info[k].new.bufheadlen
               /\ eventheadlen[self] = get_bin_info[k].new.eventheadlen
               /\ chanheadlen[self] = get_bin_info[k].new.chanheadlen

\* ------------------------------------------------------ claims on the view
\* C10: when _bin_filename_changed(new) has run, the parser's
\* selected_data_file is new and every series scan of the run saw new
\* selected (the '.bin' scan first, the '.ifm' scan second); when it has
\* run to its end, the view's file_series is the '.bin' series of new and
\* the parser's file_series the '.ifm' series of new.
C10_SelectedBeforeScans ==
    handled.done =>
        LET cwd == _get_data_cwd(selected_data_file, Parser)
        IN  /\ bin_filename = handled.new
            /\ selected_data_file[Parser] = handled.new
            /\ \A i \in 1..Len(handled.scans) : handled.scans[i].selected = handled.new
            /\ handled.scans[1].ext = ExtBin
            /\ handled.exc = "none" =>
                   /\ Len(handled.scans) = 2
                   /\ handled.scans[2].ext = ExtIfm
                   /\ view_file_series = ExpectedSeries(cwd, handled.new, ExtBin)
                   /\ file_series[Parser] = ExpectedSeries(cwd, handled.new, ExtIfm)

\* C10 witness: the view showed series r of /a, bin_filename was changed to
\* /b/q0001.bin, and the view now lists q0001.bin, the parser q0001.ifm.
C10_Witness ==
    /\ handled.done
    /\ handled.exc = "none"
    /\ handled.old = DirA \o <<"/">> \o SeriesFile(<<"r">>, N1, ExtBin)
    /\ handled.new = DirB \o <<"/">> \o SeriesFile(<<"q">>, N1, ExtBin)
    /\ handled.scans[1].before = 2
    /\ view_file_series = <<SeriesFile(<<"q">>, N1, ExtBin)>>
    /\ file_series[Parser] = <<SeriesFile(<<"q">>, N1, ExtIfm)>>

\* ------------------------------------------------- claims on the assembler
\* The event of the stream on channel c.
OnChannel(c) == fed[CHOOSE i \in 1..Len(fed) : fed[i].channel = c]
ThreeInTolerance ==
    /\ Len(fed) = 3
    /\ {fed[i].channel : i \in 1..3} = {0, 1, 2}
    /\ \A i \in 1..3 : fed[i].ts - fed[1].ts <= Tolerance

\* C6: a stream of three events on channels 0, 1 and 2 within the
\* coincidence tolerance yields, when it ends, exactly one GammaEvent and
\* no AggEvent1 or AggEvent2, with deltaT_01 = ts1 - ts0, deltaT_02 = ts2 -
\* ts0 and deltaT_12 = ts2 - ts1, signed.
C6_OneGammaEvent ==
    (eos /\ ThreeInTolerance) =>
        /\ tables.AggEvent1 = <<>>
        /\ tables.AggEvent2 = <<>>
        /\ Len(tables.GammaEvent) = 1
        /\ tables.GammaEvent[1].deltaT_01 = OnChannel(1).ts - OnChannel(0).ts
        /\ tables.GammaEvent[1].deltaT_02 = OnChannel(2).ts - OnChannel(0).ts
        /\ tables.GammaEvent[1].deltaT_12 = OnChannel(2).ts - OnChannel(1).ts

\* C6 witness: channel 1 fired one tick before channels 0 and 2, and the
\* record holds the negative difference.
C6_Witness ==
    /\ eos /\ ThreeInTolerance
    /\ OnChannel(1).ts < OnChannel(0).ts
    /\ Len(tables.GammaEvent) = 1
    /\ tables.GammaEvent[1].deltaT_01 = -1
    /\ tables.GammaEvent[1].deltaT_12 = 1

====
